---- MODULE Spec2Model ----
(***************************************************************************)
(* A model of the `spanned` crate: byte-range locations (Span), located    *)
(* values (Spanned<T>) with their span-adjusting string operations, and    *)
(* the multi-frame Error whose Debug impl builds an annotate-snippets      *)
(* document.                                                               *)
(*                                                                         *)
(* Representation.                                                         *)
(*  - A byte is its integer value; a &str / &[u8] / String / Vec<u8> is a  *)
(*    sequence of bytes.  A &str is always valid UTF-8.                    *)
(*  - A u32 offset is a pair <<hi, lo>> of 16-bit limbs (value             *)
(*    hi * 65536 + lo): TLC's integers are 32-bit signed and cannot hold   *)
(*    u32::MAX, and the limbs keep the exact 32-bit width.                 *)
(*  - A usize is [hi32 |-> n, lo |-> u32]: value n * 2^32 + lo.            *)
(*  - A call that panics returns [panic |-> TRUE, ...].                    *)
(***************************************************************************)
EXTENDS Integers, Sequences, FiniteSets, TLC

VARIABLES
    overflow_checks,  \* build profile: TRUE = arithmetic overflow panics (debug), FALSE = wraps (release)
    fs,               \* the file system: path -> [ok, bytes]
    val,              \* the current located value (a Spanned<T>)
    res,              \* the last call on val: operation, arguments, input and returned values
    chain,            \* the current Error: its frames, outermost first
    doc,              \* the document the last Debug formatting of chain built
    log               \* the contexts handed to the calls that built chain, in call order

vars == <<overflow_checks, fs, val, res, chain, doc, log>>

-----------------------------------------------------------------------------
(* Bounds of the model *)

\* characters per file content
MaxChars == 3
\* offsets explored by the span arithmetic lie within this distance of 0 or of u32::MAX
SpanWindow == 3
\* small amounts handed to the span arithmetic
MaxAmount == 3
\* wrap / wrap_str calls per chain
MaxWraps == 3

-----------------------------------------------------------------------------
(* u32 and usize arithmetic *)

Limb == 65536

U32(n) == <<n \div Limb, n % Limb>>

\* the value of a u32 below 2^31 as a number
ToNat(v) == v[1] * Limb + v[2]

U32_MAX == <<Limb - 1, Limb - 1>>

Le32(a, b) == a[1] < b[1] \/ (a[1] = b[1] /\ a[2] <= b[2])

Lt32(a, b) == Le32(a, b) /\ a # b

\* a + b on u32: the wrapped sum and whether it overflowed
Add32(a, b) ==
    LET lo == a[2] + b[2]
        hi == a[1] + b[1] + (lo \div Limb)
    IN  [v |-> <<hi % Limb, lo % Limb>>, overflow |-> hi >= Limb]

\* a - b on u32: the wrapped difference and whether it underflowed
Sub32(a, b) ==
    LET lo == a[2] - b[2]
        borrow == IF lo < 0 THEN 1 ELSE 0
        hi == a[1] - b[1] - borrow
    IN  [v |-> <<(hi + Limb) % Limb, (lo + Limb) % Limb>>, overflow |-> hi < 0]

Usize(n) == [hi32 |-> 0, lo |-> U32(n)]

\* u32::try_from(amount): fails when amount exceeds u32::MAX
TryFromUsize(amount) == [ok |-> amount.hi32 = 0, v |-> amount.lo]

-----------------------------------------------------------------------------
(* Span *)

EmptyPath == ""

MkSpan(file, start, end) == [file |-> file, start |-> start, end |-> end]

\* Span::default(): the sentinel
SpanDefault == MkSpan(EmptyPath, U32_MAX, U32_MAX)

SpanPanic == [panic |-> TRUE, span |-> SpanDefault]

SpanOk(span) == [panic |-> FALSE, span |-> span]

is_dummy(self) == self.start = U32_MAX /\ self.end = U32_MAX

dec_col_end(self, amount) ==
    LET amt == TryFromUsize(amount)
        new == Sub32(self.end, amt.v)
    IN  IF ~amt.ok THEN SpanPanic
        ELSE IF new.overflow /\ overflow_checks THEN SpanPanic
        ELSE IF ~Le32(self.start, new.v) THEN SpanPanic
        ELSE SpanOk([self EXCEPT !.end = new.v])

inc_col_start(self, amount) ==
    LET amt == TryFromUsize(amount)
        new == Add32(self.start, amt.v)
    IN  IF ~amt.ok THEN SpanPanic
        ELSE IF new.overflow /\ overflow_checks THEN SpanPanic
        ELSE IF ~Le32(new.v, self.end) THEN SpanPanic
        ELSE SpanOk([self EXCEPT !.start = new.v])

set_col_end_relative_to_start(self, amount) ==
    LET amt == TryFromUsize(amount)
        new == Add32(self.start, amt.v)
    IN  IF ~amt.ok THEN SpanPanic
        ELSE IF new.overflow /\ overflow_checks THEN SpanPanic
        ELSE IF ~Le32(new.v, self.end) THEN SpanPanic
        ELSE SpanOk([self EXCEPT !.end = new.v])

shrink_to_end(self) == [self EXCEPT !.start = self.end]

shrink_to_start(self) == [self EXCEPT !.end = self.start]

-----------------------------------------------------------------------------
(* Bytes, UTF-8 and the std / bstr string primitives the crate calls *)

\* the characters the model's files are made of, as their UTF-8 encodings
DIGIT == <<49>>
SPACE == <<32>>
EQUALS == <<61>>
NEWLINE == <<10>>
\* U+00A0 NO-BREAK SPACE: a two-byte character with the White_Space property
NBSP == <<194, 160>>

Alphabet == {DIGIT, SPACE, EQUALS, NEWLINE, NBSP}

RECURSIVE Texts(_)
\* every text of at most n characters of the alphabet
Texts(n) ==
    IF n = 0 THEN {<<>>}
    ELSE LET shorter == Texts(n - 1)
         IN  shorter \cup {t \o c : t \in shorter, c \in Alphabet}

IsContinuation(b) == b \in 128..191

\* the encoded width announced by a leading byte
Utf8Width(b) ==
    IF b < 128 THEN 1
    ELSE IF b \in 192..223 THEN 2
    ELSE IF b \in 224..239 THEN 3
    ELSE 4

\* str::is_char_boundary
is_char_boundary(s, i) ==
    \/ i = 0
    \/ i = Len(s)
    \/ i < Len(s) /\ ~IsContinuation(s[i + 1])

RECURSIVE Utf8ValidFrom(_, _)
\* whether bytes from offset i on are whole, well-formed characters
Utf8ValidFrom(bytes, i) ==
    IF i >= Len(bytes) THEN TRUE
    ELSE LET b == bytes[i + 1]
             w == Utf8Width(b)
         IN  /\ ~IsContinuation(b)
             /\ b < 248
             /\ i + w <= Len(bytes)
             /\ \A k \in 2..w : IsContinuation(bytes[i + k])
             /\ Utf8ValidFrom(bytes, i + w)

\* std::str::from_utf8(bytes).is_ok()
Utf8Valid(bytes) == Utf8ValidFrom(bytes, 0)

RECURSIVE CharIndicesFrom(_, _)
CharIndicesFrom(s, i) ==
    IF i >= Len(s) THEN <<>>
    ELSE LET w == Utf8Width(s[i + 1])
         IN  <<[i |-> i, c |-> SubSeq(s, i + 1, i + w)]>> \o CharIndicesFrom(s, i + w)

\* str::char_indices: each character with its byte offset
char_indices(s) == CharIndicesFrom(s, 0)

\* char::is_whitespace: the White_Space code points, as UTF-8
WhiteSpace ==
    {<<b>> : b \in 9..13} \cup {<<32>>, <<194, 133>>, <<194, 160>>, <<225, 154, 128>>}
    \cup {<<226, 128, b>> : b \in 128..138}
    \cup {<<226, 128, 168>>, <<226, 128, 169>>, <<226, 128, 175>>,
          <<226, 129, 159>>, <<227, 128, 128>>}

is_whitespace(c) == c \in WhiteSpace

is_ascii_digit(c) == Len(c) = 1 /\ c[1] \in 48..57

\* s[from..to] with 0-based byte offsets
Slice(s, from, to) == SubSeq(s, from + 1, to)

StartsWith(s, pat) == Len(pat) <= Len(s) /\ SubSeq(s, 1, Len(pat)) = pat

EndsWith(s, pat) ==
    Len(pat) <= Len(s) /\ SubSeq(s, Len(s) - Len(pat) + 1, Len(s)) = pat

\* str::find(pat): the byte offset of the first match, -1 when there is none
Find(s, pat) ==
    LET hits == {i \in 0..(Len(s) - Len(pat)) : Slice(s, i, i + Len(pat)) = pat}
    IN  IF hits = {} THEN -1 ELSE CHOOSE i \in hits : \A j \in hits : i <= j

\* str::find(|c| !p(c)) for a named predicate p: offset of the first character failing it
Holds(pred, c) ==
    IF pred = "is_whitespace" THEN is_whitespace(c) ELSE is_ascii_digit(c)

FindNot(s, pred) ==
    LET cs == char_indices(s)
        hits == {k \in 1..Len(cs) : ~Holds(pred, cs[k].c)}
    IN  IF hits = {} THEN -1
        ELSE cs[CHOOSE k \in hits : \A j \in hits : k <= j].i

RECURSIVE LeadingWhile(_, _, _)
\* bytes of the longest prefix of s, from offset i, whose characters are all in set
LeadingWhile(s, i, set) ==
    IF i >= Len(s) THEN i
    ELSE LET w == Utf8Width(s[i + 1])
         IN  IF SubSeq(s, i + 1, i + w) \in set THEN LeadingWhile(s, i + w, set) ELSE i

\* offset where the character ending at offset j starts
CharStartBefore(s, j) ==
    CHOOSE i \in 0..(j - 1) : ~IsContinuation(s[i + 1]) /\ i + Utf8Width(s[i + 1]) = j

RECURSIVE TrailingWhile(_, _, _)
\* offset where the longest suffix of s[..j] whose characters are all in set starts
TrailingWhile(s, j, set) ==
    IF j = 0 THEN 0
    ELSE LET i == CharStartBefore(s, j)
         IN  IF SubSeq(s, i + 1, j) \in set THEN TrailingWhile(s, i, set) ELSE j

\* str::trim_start, str::trim_end, str::trim_start_matches(char)
str_trim_start(s) == Slice(s, LeadingWhile(s, 0, WhiteSpace), Len(s))

str_trim_end(s) == Slice(s, 0, TrailingWhile(s, Len(s), WhiteSpace))

str_trim_start_matches(s, c) == Slice(s, LeadingWhile(s, 0, {c}), Len(s))

RECURSIVE BstrLinesFrom(_, _)
\* bstr's ByteSlice::lines: each line as [at |-> its offset, line |-> its bytes],
\* a trailing "\n" or "\r\n" removed
BstrLinesFrom(bytes, i) ==
    IF i >= Len(bytes) THEN <<>>
    ELSE LET nls == {k \in (i + 1)..Len(bytes) : bytes[k] = 10}
             stop == IF nls = {} THEN Len(bytes)
                     ELSE CHOOSE k \in nls : \A j \in nls : k <= j
             raw == SubSeq(bytes, i + 1, stop)
             n == Len(raw)
             cut == IF n > 0 /\ raw[n] = 10
                    THEN (IF n > 1 /\ raw[n - 1] = 13 THEN 2 ELSE 1)
                    ELSE 0
         IN  <<[at |-> i, line |-> SubSeq(raw, 1, n - cut)]>> \o BstrLinesFrom(bytes, stop)

bstr_lines(bytes) == BstrLinesFrom(bytes, 0)

RECURSIVE DigitsValue(_, _)
DigitsValue(ds, acc) ==
    IF ds = <<>> THEN acc ELSE DigitsValue(Tail(ds), acc * 10 + (Head(ds) - 48))

\* <i32 as FromStr>::from_str, for texts of fewer than ten digits
from_str_i32(s) ==
    LET signed == Len(s) > 0 /\ s[1] \in {43, 45}
        digits == IF signed THEN Tail(s) ELSE s
        mag == DigitsValue(digits, 0)
    IN  IF s = <<>> THEN [ok |-> FALSE, v |-> <<>>, err |-> "cannot parse integer from empty string"]
        ELSE IF digits = <<>> \/ \E k \in 1..Len(digits) : digits[k] \notin 48..57
        THEN [ok |-> FALSE, v |-> <<>>, err |-> "invalid digit found in string"]
        ELSE [ok |-> TRUE, v |-> <<IF signed /\ s[1] = 45 THEN 0 - mag ELSE mag>>, err |-> ""]

\* <char as FromStr>::from_str
from_str_char(s) ==
    LET cs == char_indices(s)
    IN  IF cs = <<>> THEN [ok |-> FALSE, v |-> <<>>, err |-> "cannot parse char from empty string"]
        ELSE IF Len(cs) > 1 THEN [ok |-> FALSE, v |-> <<>>, err |-> "too many characters in string"]
        ELSE [ok |-> TRUE, v |-> cs[1].c, err |-> ""]

from_str(ty, s) == IF ty = "i32" THEN from_str_i32(s) ELSE from_str_char(s)


-----------------------------------------------------------------------------
(* Spanned<T> and what its calls return *)

\* ty names T: "str" (&str / String), "bytes" (&[u8] / Vec<u8>), "char", "i32"
Spanned(content, span, ty) == [content |-> content, span |-> span, ty |-> ty]

\* What a call returned: "ok" (a value, or an iterator run to its end), "some" / "none"
\* (an Option), "err" (a Result's Err, the Error's frames in err), "panic".
\* out holds the returned values; for an iterator that panics, those yielded before.
Returned(outcome, out) == [outcome |-> outcome, out |-> out, err |-> <<>>]

Panicked == Returned("panic", <<>>)

None == Returned("none", <<>>)

\* the sorted members of a set of numbers
RECURSIVE Sorted(_)
Sorted(S) ==
    IF S = {} THEN <<>>
    ELSE LET m == CHOOSE x \in S : \A y \in S : x <= y
         IN  <<m>> \o Sorted(S \ {m})

\* an iterator's items up to the first one whose computation panics
Iterated(items) ==
    LET bad == {k \in 1..Len(items) : items[k].panic}
        stop == IF bad = {} THEN Len(items) + 1 ELSE CHOOSE k \in bad : \A j \in bad : k <= j
    IN  Returned(IF bad = {} THEN "ok" ELSE "panic",
                 [k \in 1..(stop - 1) |-> items[k].v])

\* Spanned::dummy
dummy(content, ty) == Spanned(content, SpanDefault, ty)

split_once(self, delimiter) ==
    LET at == Find(self.content, delimiter)
        a == Slice(self.content, 0, at)
        b == Slice(self.content, at + Len(delimiter), Len(self.content))
        sa == dec_col_end(self.span, Usize(Len(b)))
        sb == inc_col_start(self.span, Usize(Len(a) + 1))
    IN  IF at < 0 THEN None
        ELSE IF sa.panic \/ sb.panic THEN Panicked
        ELSE Returned("some", <<Spanned(a, sa.span, "str"), Spanned(b, sb.span, "str")>>)

\* split_at with the right half's start one byte late, as split_once computes it
split_at_skipping_a_byte(self, pos) ==
    LET a == Slice(self.content, 0, pos)
        b == Slice(self.content, pos, Len(self.content))
        n == Len(a)
        sa == set_col_end_relative_to_start(self.span, Usize(n))
        sb == inc_col_start(self.span, Usize(n + 1))
    IN  IF pos > Len(self.content) \/ ~is_char_boundary(self.content, pos) THEN Panicked
        ELSE IF sa.panic \/ sb.panic THEN Panicked
        ELSE Returned("ok", <<Spanned(a, sa.span, "str"), Spanned(b, sb.span, "str")>>)

split_at(self, pos) ==
    LET a == Slice(self.content, 0, pos)
        b == Slice(self.content, pos, Len(self.content))
        n == Len(a)
        sa == set_col_end_relative_to_start(self.span, Usize(n))
        sb == inc_col_start(self.span, Usize(n))
    IN  IF pos > Len(self.content) \/ ~is_char_boundary(self.content, pos) THEN Panicked
        ELSE IF sa.panic \/ sb.panic THEN Panicked
        ELSE Returned("ok", <<Spanned(a, sa.span, "str"), Spanned(b, sb.span, "str")>>)

take_while(self, delimiter) ==
    LET pos == FindNot(self.content, delimiter)
        halves == split_at(self, pos)
    IN  IF pos < 0 THEN None
        ELSE IF halves.outcome = "panic" THEN Panicked
        ELSE Returned("some", halves.out)

\* trim_end moving the end by the length kept instead of the length removed
trim_end_by_kept_length(self) ==
    LET content == str_trim_end(self.content)
        n == Len(content)
        span == dec_col_end(self.span, Usize(n))
    IN  IF span.panic THEN Panicked
        ELSE Returned("ok", <<Spanned(content, span.span, "str")>>)

trim_end(self) ==
    LET content == str_trim_end(self.content)
        n == Len(Slice(self.content, Len(content), Len(self.content)))
        span == dec_col_end(self.span, Usize(n))
    IN  IF span.panic THEN Panicked
        ELSE Returned("ok", <<Spanned(content, span.span, "str")>>)

is_empty(self) == self.content = <<>>

strip_prefix(self, prefix) ==
    LET content == Slice(self.content, Len(prefix), Len(self.content))
        span == inc_col_start(self.span, Usize(Len(prefix)))
    IN  IF ~StartsWith(self.content, prefix) THEN None
        ELSE IF span.panic THEN Panicked
        ELSE Returned("some", <<Spanned(content, span.span, self.ty)>>)

strip_suffix(self, suffix) ==
    LET content == Slice(self.content, 0, Len(self.content) - Len(suffix))
        span == dec_col_end(self.span, Usize(Len(suffix)))
    IN  IF ~EndsWith(self.content, suffix) THEN None
        ELSE IF span.panic THEN Panicked
        ELSE Returned("some", <<Spanned(content, span.span, "str")>>)

trim_start(self) ==
    LET content == str_trim_start(self.content)
        n == Len(Slice(self.content, 0, Len(self.content) - Len(content)))
        span == inc_col_start(self.span, Usize(n))
    IN  IF span.panic THEN Panicked
        ELSE Returned("ok", <<Spanned(content, span.span, "str")>>)

trim_start_matches(self, c) ==
    LET content == str_trim_start_matches(self.content, c)
        n == Len(Slice(self.content, 0, Len(self.content) - Len(content)))
        span == inc_col_start(self.span, Usize(n))
    IN  IF span.panic THEN Panicked
        ELSE Returned("ok", <<Spanned(content, span.span, "str")>>)

trim(self) ==
    LET started == trim_start(self)
    IN  IF started.outcome = "panic" THEN Panicked ELSE trim_end(started.out[1])

starts_with(self, pat) == StartsWith(self.content, pat)

chars(self) ==
    LET cs == char_indices(self.content)
        item(k) ==
            LET span == inc_col_start(self.span, Usize(cs[k].i))
            IN  [panic |-> span.panic,
                 v |-> Spanned(cs[k].c, shrink_to_start(span.span), "char")]
    IN  Iterated([k \in 1..Len(cs) |-> item(k)])

split(self, needle) ==
    LET cs == char_indices(self.content)
        \* the offsets the filter lets through: each needle, then the chained end of content
        hits == Sorted({cs[k].i : k \in {j \in 1..Len(cs) : cs[j].c = needle}})
                    \o <<Len(self.content)>>
        item(k) ==
            LET start == IF k = 1 THEN 0 ELSE hits[k - 1] + 1
                i == hits[k]
                sliced == /\ start <= i
                          /\ is_char_boundary(self.content, start)
                          /\ is_char_boundary(self.content, i)
                content == Slice(self.content, start, i)
                from == inc_col_start(self.span, Usize(start))
                span == IF from.panic THEN SpanPanic
                        ELSE set_col_end_relative_to_start(from.span, Usize(Len(content)))
            IN  [panic |-> ~sliced \/ span.panic,
                 v |-> Spanned(content, span.span, "str")]
    IN  Iterated([k \in 1..Len(hits) |-> item(k)])

to_string(self) == Spanned(self.content, self.span, "str")

\* Spanned<&[u8]>::strip_prefix is strip_prefix above: the same body on bytes

split_once_str(self, splitter) ==
    LET at == Find(self.content, splitter)
        a == Slice(self.content, 0, at)
        b == Slice(self.content, at + Len(splitter), Len(self.content))
        sa == set_col_end_relative_to_start(self.span, Usize(Len(a)))
        sb == inc_col_start(self.span, Usize(Len(a) + Len(splitter)))
    IN  IF at < 0 THEN None
        ELSE IF sa.panic \/ sb.panic THEN Panicked
        ELSE Returned("some", <<Spanned(a, sa.span, "bytes"), Spanned(b, sb.span, "bytes")>>)

\* Spanned<&[u8]>::to_str: Err(Spanned<Utf8Error>) keeps the span
to_str(self) ==
    IF Utf8Valid(self.content)
    THEN Returned("ok", <<Spanned(self.content, self.span, "str")>>)
    ELSE Returned("err", <<Spanned(<<>>, self.span, "Utf8Error")>>)

lines(self) ==
    LET ls == bstr_lines(self.content)
        item(k) ==
            LET from == inc_col_start(self.span, Usize(ls[k].at))
                end == Add32(from.span.start, U32(Len(ls[k].line)))
            IN  [panic |-> from.panic \/ (end.overflow /\ overflow_checks),
                 v |-> Spanned(ls[k].line, [from.span EXCEPT !.end = end.v], "bytes")]
    IN  Iterated([k \in 1..Len(ls) |-> item(k)])


\* std::fs::read / read_to_string of a path: [ok, bytes]; the text read must be UTF-8
fs_read(path) == fs[path]

fs_read_to_string(path) ==
    IF fs[path].ok /\ Utf8Valid(fs[path].bytes) THEN fs[path] ELSE [ok |-> FALSE, bytes |-> <<>>]

\* Spanned::<Vec<u8>>::read_from_file: a Spanned<io::Result<Vec<u8>>>, ty "io::Error" for Err.
\* The file lengths of the model all fit a u32, so the expect() never fires.
read_from_file(path) ==
    LET content == fs_read(path)
        len == IF content.ok THEN Len(content.bytes) ELSE 0
    IN  Spanned(content.bytes, MkSpan(path, U32(0), U32(len)),
                IF content.ok THEN "bytes" ELSE "io::Error")

read_str_from_file(path) ==
    LET content == fs_read_to_string(path)
        len == IF content.ok THEN Len(content.bytes) ELSE 0
    IN  Spanned(content.bytes, MkSpan(path, U32(0), U32(len)),
                IF content.ok THEN "str" ELSE "io::Error")

\* Span::here from its line on: the column looked up in the characters of the line
here_column(info, line) ==
    LET col == to_str(line)
        cs == chars(col.out[1])
    IN  IF col.outcome = "err" THEN SpanOk(line.span)
        ELSE IF Len(cs.out) < info.column
        THEN (IF cs.outcome = "panic" THEN SpanPanic ELSE SpanOk(line.span))
        ELSE SpanOk([line.span EXCEPT !.start = cs.out[info.column].span.start])

\* Span::here once the file is read: the line looked up in its lines ls
here_line(info, ls) ==
    IF Len(ls.out) < info.line
    THEN (IF ls.outcome = "panic" THEN SpanPanic
          ELSE SpanOk(MkSpan(info.file, U32(0), U32(0))))
    ELSE here_column(info, ls.out[info.line])

\* Span::here, for the caller position info = [file, line, column] (both 1-based)
here(info) ==
    LET file == read_from_file(info.file)
    IN  IF file.ty = "io::Error" THEN SpanOk(MkSpan(info.file, U32(0), U32(0)))
        ELSE here_line(info, lines(file))

\* <Span as Display>::fmt: what is written, as [kind, file, line, col]
Written(kind, file, line, col) == [kind |-> kind, file |-> file, line |-> line, col |-> col]

\* Iterator::find and Iterator::position: the first of the positions S, 0 for None
First(S) == IF S = {} THEN 0 ELSE CHOOSE k \in S : \A j \in S : k <= j

\* the column: the position of the character of line l that starts at the span's start
fmt_column(self, l, cs) ==
    LET c == First({k \in 1..Len(cs.out) : cs.out[k].span.start = self.start})
    IN  IF c = 0
        THEN (IF cs.outcome = "panic" THEN Written("panic", "", 0, 0)
              ELSE Written("file:line", self.file, l, 0))
        ELSE Written("file:line:col", self.file, l, c)

\* the line found, as text
fmt_line(self, l, line) ==
    IF line.outcome = "err" THEN Written("file:line", self.file, l, 0)
    ELSE fmt_column(self, l, chars(line.out[1]))

\* the first of the lines ls whose span contains the span's start
fmt_lines(self, ls) ==
    LET InLine(k) == Le32(ls.out[k].span.start, self.start) /\ Lt32(self.start, ls.out[k].span.end)
        l == First({k \in 1..Len(ls.out) : InLine(k)})
    IN  IF l = 0
        THEN (IF ls.outcome = "panic" THEN Written("panic", "", 0, 0)
              ELSE Written("file", self.file, 0, 0))
        ELSE fmt_line(self, l, to_str(ls.out[l]))

fmt_Display(self) ==
    LET contents == read_str_from_file(self.file)
    IN  IF self.file = EmptyPath THEN Written("DUMMY_SPAN", "", 0, 0)
        ELSE IF contents.ty = "io::Error" THEN Written("file", self.file, 0, 0)
        ELSE fmt_lines(self, lines(contents))

-----------------------------------------------------------------------------
(* Error: a chain of frames, the outermost first *)

\* ErrorData { span, source, data }: source is the rest of the sequence, data its text
Frame(span, data) == [span |-> span, data |-> data]

\* Error::new and From<Spanned<T>>: a leaf
Error_new(context) == <<Frame(context.span, context.content)>>

\* Error::new_str: a leaf whose data is a DisplayData
Error_new_str(context) == <<Frame(context.span, context.content)>>

\* Error::str and Error::here: a leaf at Span::here()
Error_str(data, info) ==
    LET span == here(info)
    IN  [panic |-> span.panic, v |-> <<Frame(span.span, data)>>]

\* wrap putting the context below the chain instead of on top of it
Error_wrap_below(self, context) == self \o <<Frame(context.span, context.content)>>

Error_wrap(self, context) == <<Frame(context.span, context.content)>> \o self

Error_wrap_str(self, context) == <<Frame(context.span, context.content)>> \o self

\* Error::sources: every frame below the outermost
sources(self) == Tail(self)

\* parse reporting a failure at the start of the value instead of over its span
parse_failing_at_start(self, T) ==
    LET parsed == from_str(T, self.content)
    IN  IF parsed.ok THEN Returned("ok", <<Spanned(parsed.v, self.span, T)>>)
        ELSE [outcome |-> "err", out |-> <<>>,
              err |-> Error_new_str(Spanned(parsed.err, shrink_to_start(self.span), "String"))]

parse(self, T) ==
    LET parsed == from_str(T, self.content)
    IN  IF parsed.ok THEN Returned("ok", <<Spanned(parsed.v, self.span, T)>>)
        ELSE [outcome |-> "err", out |-> <<>>,
              err |-> Error_new_str(Spanned(parsed.err, self.span, "String"))]

\* an annotation of a snippet: Level::Error.span(range), with .label(msg) when labelled
Annotation(range, labelled, label) == [range |-> range, labelled |-> labelled, label |-> label]

RECURSIVE LabelsOf(_, _)
\* the files map's list for a file: (bytes, text) of the source frames in that file, in order
LabelsOf(frames, file) ==
    IF frames = <<>> THEN <<>>
    ELSE (IF Head(frames).span.file = file
          THEN <<Annotation(<<Head(frames).span.start, Head(frames).span.end>>, TRUE,
                            Head(frames).data)>>
          ELSE <<>>) \o LabelsOf(Tail(frames), file)

RECURSIVE OtherSnippets(_, _, _)
\* the filter_map over sources(): a snippet for each source frame outside the main file
OtherSnippets(frames, all, main_path) ==
    IF frames = <<>> THEN <<>>
    ELSE (IF Head(frames).span.file = main_path THEN <<>>
          ELSE <<[source |-> fs_read_to_string(Head(frames).span.file).bytes,
                  origin |-> Head(frames).span.file,
                  fold |-> TRUE,
                  annotations |-> LabelsOf(all, Head(frames).span.file)]>>)
         \o OtherSnippets(Tail(frames), all, main_path)

\* <Error as Debug>::fmt: the message handed to the renderer, or a panic when a
\* file of the chain cannot be read (the unwrap()s)
fmt_Debug(self) ==
    LET main_path == self[1].span.file
        unread == {k \in 1..Len(self) : ~fs_read_to_string(self[k].span.file).ok}
        main == [source |-> fs_read_to_string(main_path).bytes,
                 origin |-> main_path,
                 fold |-> TRUE,
                 annotations |->
                     <<Annotation(<<self[1].span.start, self[1].span.end>>, FALSE, "")>>
                     \o LabelsOf(sources(self), main_path)]
    IN  IF unread # {} THEN [panic |-> TRUE, title |-> "", snippets |-> <<>>]
        ELSE [panic |-> FALSE,
              title |-> self[1].data,
              snippets |-> <<main>> \o OtherSnippets(sources(self), sources(self), main_path)]


\* Context<T> for Result<T, E>: self is [ok, v, e]; what comes back is the Result<T, Error>.
\* info is the position Location::caller() reports to the Spanned::here(e) of the closure.
map_err(self, error, panic) ==
    IF self.ok THEN Returned("ok", <<self.v>>)
    ELSE IF panic THEN Panicked
    ELSE [outcome |-> "err", out |-> <<>>, err |-> error]

with_context(self, f, info) ==
    LET at == here(info)
    IN  map_err(self, Error_wrap(Error_new_str(f), Spanned(self.e, at.span, "E")), at.panic)

with_path_context(self, path, msg, info) ==
    LET at == here(info)
    IN  map_err(self,
                Error_wrap(Error_new_str(Spanned(msg, MkSpan(path, U32(0), U32(0)), "String")),
                           Spanned(self.e, at.span, "E")),
                at.panic)

\* info_msg is the position reported to Spanned::here(msg)
with_str_context(self, msg, info_msg, info) ==
    LET at_msg == here(info_msg)
        at == here(info)
    IN  map_err(self,
                Error_wrap(Error_new_str(Spanned(msg, at_msg.span, "String")),
                           Spanned(self.e, at.span, "E")),
                at_msg.panic \/ at.panic)


-----------------------------------------------------------------------------
(* The string operations: a whole-file value and everything derived from it *)

TextPath == "a.txt"

OtherPath == "b.txt"

MissingPath == "missing.txt"

Paths == {EmptyPath, TextPath, OtherPath, MissingPath}

Unreadable == [ok |-> FALSE, bytes |-> <<>>]

Readable(bytes) == [ok |-> TRUE, bytes |-> bytes]

\* the arguments the calls are tried with
Delimiters == {EQUALS, EQUALS \o EQUALS, NBSP}

Affixes == {EQUALS, SPACE, NBSP}

\* prefixes for Spanned<&[u8]>::strip_prefix: any bytes, also half of a character
ByteAffixes == {EQUALS, NBSP, <<194>>}

Needles == {EQUALS, SPACE, NBSP}

Predicates == {"is_whitespace", "is_ascii_digit"}

Targets == {"i32", "char"}

\* a call on a value: the operation, its arguments, the value it was called on, what it returned
Call(op, pat, pos, name, in, ret) ==
    [op |-> op, pat |-> pat, pos |-> pos, name |-> name, amount |-> Usize(0), in |-> in,
     outcome |-> ret.outcome, out |-> ret.out, err |-> ret.err]

NoCall(v) == Call("", <<>>, 0, "", v, Returned("ok", <<>>))

NoDoc == [panic |-> FALSE, title |-> "", snippets |-> <<>>]

Init ==
    /\ overflow_checks \in BOOLEAN
    /\ \E text \in Texts(MaxChars) :
           fs = [p \in Paths |-> IF p = TextPath THEN Readable(text) ELSE Unreadable]
    /\ val \in {read_str_from_file(TextPath), read_from_file(TextPath)}
    /\ res = NoCall(val)
    /\ chain = <<>>
    /\ doc = NoDoc
    /\ log = <<>>

\* a call on val, made once the caller is done with the last one; it leaves
\* everything but res as it is
Calls(call) ==
    /\ res.op = ""
    /\ res' = call
    /\ UNCHANGED <<overflow_checks, fs, val, chain, doc, log>>

SplitOnce ==
    /\ val.ty = "str"
    /\ \E d \in Delimiters : Calls(Call("split_once", d, 0, "", val, split_once(val, d)))

SplitOnceStr ==
    /\ val.ty = "bytes"
    /\ \E d \in Delimiters : Calls(Call("split_once_str", d, 0, "", val, split_once_str(val, d)))

SplitAt ==
    /\ val.ty = "str"
    /\ \E pos \in 0..(Len(val.content) + 1) :
           Calls(Call("split_at", <<>>, pos, "", val, split_at(val, pos)))

TakeWhile ==
    /\ val.ty = "str"
    /\ \E p \in Predicates : Calls(Call("take_while", <<>>, 0, p, val, take_while(val, p)))

Trim ==
    /\ val.ty = "str"
    /\ Calls(Call("trim", <<>>, 0, "", val, trim(val)))

TrimStart ==
    /\ val.ty = "str"
    /\ Calls(Call("trim_start", <<>>, 0, "", val, trim_start(val)))

TrimEnd ==
    /\ val.ty = "str"
    /\ Calls(Call("trim_end", <<>>, 0, "", val, trim_end(val)))

TrimStartMatches ==
    /\ val.ty = "str"
    /\ \E c \in Needles :
           Calls(Call("trim_start_matches", c, 0, "", val, trim_start_matches(val, c)))

StripPrefix ==
    /\ val.ty \in {"str", "bytes"}
    /\ \E p \in (IF val.ty = "str" THEN Affixes ELSE ByteAffixes) :
           Calls(Call("strip_prefix", p, 0, "", val, strip_prefix(val, p)))

StripSuffix ==
    /\ val.ty = "str"
    /\ \E p \in Affixes : Calls(Call("strip_suffix", p, 0, "", val, strip_suffix(val, p)))

Split ==
    /\ val.ty = "str"
    /\ \E c \in Needles : Calls(Call("split", c, 0, "", val, split(val, c)))

Chars ==
    /\ val.ty = "str"
    /\ Calls(Call("chars", <<>>, 0, "", val, chars(val)))

Lines ==
    /\ val.ty \in {"str", "bytes"}
    /\ Calls(Call("lines", <<>>, 0, "", val, lines(val)))

ToStr ==
    /\ val.ty = "bytes"
    /\ Calls(Call("to_str", <<>>, 0, "", val, to_str(val)))

Parse ==
    /\ val.ty = "str"
    /\ \E T \in Targets : Calls(Call("parse", <<>>, 0, T, val, parse(val, T)))

\* the caller goes on with one of the values the last call returned
Continue ==
    /\ \E k \in 1..Len(res.out) :
           /\ res.out[k].ty \in {"str", "bytes"}
           /\ val' = res.out[k]
           /\ res' = NoCall(res.out[k])
    /\ UNCHANGED <<overflow_checks, fs, chain, doc, log>>

Next ==
    \/ SplitOnce
    \/ SplitOnceStr
    \/ SplitAt
    \/ TakeWhile
    \/ Trim
    \/ TrimStart
    \/ TrimEnd
    \/ TrimStartMatches
    \/ StripPrefix
    \/ StripSuffix
    \/ Split
    \/ Chars
    \/ Lines
    \/ ToStr
    \/ Parse
    \/ Continue

Spec == Init /\ [][Next]_vars


-----------------------------------------------------------------------------
(* Properties of the string operations *)

\* the span is start <= end and as long as the content
Matches(v) ==
    /\ Le32(v.span.start, v.span.end)
    /\ Sub32(v.span.end, v.span.start).v = U32(Len(v.content))

\* span a lies inside span b
Inside(a, b) ==
    /\ a.file = b.file
    /\ Le32(b.start, a.start)
    /\ Le32(a.start, a.end)
    /\ Le32(a.end, b.end)

\* the span is a range of its file whose bytes are the content
Located(v) ==
    /\ fs[v.span.file].ok
    /\ Le32(v.span.start, v.span.end)
    /\ Le32(v.span.end, U32(Len(fs[v.span.file].bytes)))
    /\ Slice(fs[v.span.file].bytes, ToNat(v.span.start), ToNat(v.span.end)) = v.content

SpanFrom(span, from, len) ==
    MkSpan(span.file, Add32(span.start, U32(from)).v, Add32(span.start, U32(from + len)).v)

\* C1: on a value whose span is as long as its content, split_once(delimiter) with a
\* non-empty delimiter returns None when the delimiter is absent, and otherwise the text
\* before and after its first occurrence, the left at [s, s + len(left)) and the right
\* at [e - len(right), e): neither span covers the delimiter.
C1_SplitOnceSpansExcludeDelimiter ==
    (res.op = "split_once" /\ Matches(res.in) /\ res.pat # <<>>) =>
        LET at == Find(res.in.content, res.pat)
            n == Len(res.in.content)
        IN  IF at < 0 THEN res.outcome = "none"
            ELSE /\ res.outcome = "some"
                 /\ res.out[1].content = Slice(res.in.content, 0, at)
                 /\ res.out[2].content = Slice(res.in.content, at + Len(res.pat), n)
                 /\ res.out[1].span = SpanFrom(res.in.span, 0, at)
                 /\ res.out[2].span =
                        SpanFrom(res.in.span, at + Len(res.pat), n - at - Len(res.pat))

\* what C2 promises of a split_at(pos) that returned
SplitAtPartitions ==
    /\ res.outcome = "ok"
    /\ res.out[1].content \o res.out[2].content = res.in.content
    /\ Len(res.out[1].content) = res.pos
    /\ res.out[1].span = SpanFrom(res.in.span, 0, res.pos)
    /\ res.out[2].span = SpanFrom(res.in.span, res.pos, Len(res.in.content) - res.pos)
    /\ res.out[1].span.end = res.out[2].span.start
    /\ res.out[1].span.start = res.in.span.start
    /\ res.out[2].span.end = res.in.span.end

\* C2 as stated: on a value whose span is as long as its content, split_at(pos) returns
\* for every pos with 0 <= pos <= content length two values whose contents concatenate to
\* the content and whose spans [s, s + pos) and [s + pos, e) partition the span.
C2_SplitAtEveryPosition ==
    (res.op = "split_at" /\ Matches(res.in) /\ res.pos <= Len(res.in.content)) =>
        SplitAtPartitions

\* C2 amended: the same for every pos that is on a character boundary of the content;
\* at a pos inside a character, or past the end, the call panics.
C2_SplitAtCharBoundary ==
    (res.op = "split_at" /\ Matches(res.in)) =>
        IF res.pos <= Len(res.in.content) /\ is_char_boundary(res.in.content, res.pos)
        THEN SplitAtPartitions
        ELSE res.outcome = "panic"

\* a split_at strictly inside a content that holds a two-byte character
C2_Witness ==
    /\ res.op = "split_at"
    /\ res.outcome = "ok"
    /\ Matches(res.in)
    /\ 0 < res.pos
    /\ res.pos < Len(res.in.content)
    /\ \E k \in 1..Len(res.in.content) : res.in.content[k] >= 128
    /\ ToNat(res.in.span.start) > 0

LocatedOperations ==
    {"split_once", "split_once_str", "split_at", "take_while", "trim", "trim_start", "trim_end",
     "trim_start_matches", "strip_prefix", "strip_suffix", "split", "lines"}

\* C3: every value obtained from a whole-file value by split_once, split_once_str, split_at,
\* take_while, trim, trim_start, trim_end, trim_start_matches, strip_prefix, strip_suffix,
\* split and lines, in any sequence, has a span inside the span of the value it was derived
\* from, and the file's bytes at that span are the value's content.
C3_DerivedValuesAreLocated ==
    /\ Located(val)
    /\ res.op \in LocatedOperations =>
           \A k \in 1..Len(res.out) :
               Inside(res.out[k].span, res.in.span) /\ Located(res.out[k])

\* the number of bytes before the first character that is not whitespace
LeadingWhitespace(s) ==
    IF FindNot(s, "is_whitespace") < 0 THEN Len(s) ELSE FindNot(s, "is_whitespace")

\* the number of bytes after the last character that is not whitespace (0 when all is)
TrailingWhitespace(s) ==
    LET cs == char_indices(s)
        solid == {k \in 1..Len(cs) : ~is_whitespace(cs[k].c)}
        last == CHOOSE k \in solid : \A j \in solid : j <= k
    IN  IF solid = {} THEN 0 ELSE Len(s) - (cs[last].i + Len(cs[last].c))

C4_WitnessAllWhitespace ==
    /\ res.op = "trim"
    /\ res.outcome = "ok"
    /\ Len(res.in.content) >= 3
    /\ LeadingWhitespace(res.in.content) = Len(res.in.content)
    /\ res.out[1].span.start = res.out[1].span.end

\* C10: parse leaves the value it is called on as it is; when it succeeds the value
\* returned has exactly that value's span; when it fails the Error returned is a single
\* frame, a leaf, whose span is exactly that value's span and whose text is the parse
\* failure's text.
C10_ParseKeepsSpan ==
    res.op = "parse" =>
        LET parsed == from_str(res.name, res.in.content)
        IN  /\ val = res.in
            /\ IF parsed.ok
               THEN /\ res.outcome = "ok"
                    /\ Len(res.out) = 1
                    /\ res.out[1].content = parsed.v
                    /\ res.out[1].span = res.in.span
                    /\ res.err = <<>>
               ELSE /\ res.outcome = "err"
                    /\ res.out = <<>>
                    /\ Len(res.err) = 1
                    /\ res.err[1].span = res.in.span
                    /\ res.err[1].data = parsed.err

\* "1=" away from the start of the file fails to parse as an i32
C10_Witness ==
    /\ res.op = "parse"
    /\ res.name = "i32"
    /\ res.outcome = "err"
    /\ res.in.content = DIGIT \o EQUALS
    /\ res.in.span = MkSpan(TextPath, U32(1), U32(3))
    /\ res.err[1].span = MkSpan(TextPath, U32(1), U32(3))

RECURSIVE Joined(_, _)
\* the contents of the items with c between them
Joined(items, c) ==
    IF Len(items) = 1 THEN items[1].content
    ELSE items[1].content \o c \o Joined(Tail(items), c)

RECURSIVE SegmentStart(_, _, _)
\* where item k starts when the items before it are separated by c
SegmentStart(items, c, k) ==
    IF k = 1 THEN 0
    ELSE SegmentStart(items, c, k - 1) + Len(items[k - 1].content) + Len(c)

\* the number of characters of s that are c
Occurrences(s, c) == Cardinality({k \in 1..Len(char_indices(s)) : char_indices(s)[k].c = c})

\* C12: on a value whose span is as long as its content, split(c) never panics for a
\* character c of any encoded width, and yields occurrences-of-c + 1 items in source
\* order which, joined by c, are the content, each at exactly its own bytes of the
\* span, the delimiters left out.
C12_SplitYieldsEverySegment ==
    (res.op = "split" /\ Matches(res.in)) =>
        /\ res.outcome = "ok"
        /\ Len(res.out) = Occurrences(res.in.content, res.pat) + 1
        /\ Joined(res.out, res.pat) = res.in.content
        /\ \A k \in 1..Len(res.out) :
               res.out[k].span = SpanFrom(res.in.span, SegmentStart(res.out, res.pat, k),
                                          Len(res.out[k].content))


-----------------------------------------------------------------------------
(* The span arithmetic: the spans the constructors give and everything the
   arithmetic makes of them *)

\* the text of the file the spans of this specification point into: "1", "\n", "="
SpanText == DIGIT \o NEWLINE \o EQUALS

\* amounts: small ones, u32::MAX, and 2^32, which no u32 holds
Amounts ==
    {Usize(n) : n \in 0..MaxAmount}
    \cup {[hi32 |-> 0, lo |-> U32_MAX], [hi32 |-> 1, lo |-> U32(0)]}

\* an offset near 0 or near u32::MAX
InWindow(v) == Le32(v, U32(SpanWindow)) \/ Le32(Sub32(U32_MAX, U32(SpanWindow)).v, v)

InitSpan ==
    /\ overflow_checks \in BOOLEAN
    /\ fs = [p \in Paths |-> IF p = TextPath THEN Readable(SpanText) ELSE Unreadable]
    /\ val \in {dummy(<<>>, "unit")}
               \cup {read_from_file(p) : p \in Paths}
               \cup {read_str_from_file(p) : p \in Paths}
    /\ res = NoCall(val)
    /\ chain = <<>>
    /\ doc = NoDoc
    /\ log = <<>>

\* val.span = val.span.op(amount): the span returned replaces the value's, a panic leaves it
SpanCalls(op, amount, ret) ==
    /\ ~ret.panic => InWindow(ret.span.start) /\ InWindow(ret.span.end)
    /\ val' = IF ret.panic THEN val ELSE [val EXCEPT !.span = ret.span]
    /\ res' = [Call(op, <<>>, 0, "", val,
                    IF ret.panic THEN Panicked
                    ELSE Returned("ok", <<[val EXCEPT !.span = ret.span]>>))
                  EXCEPT !.amount = amount]
    /\ UNCHANGED <<overflow_checks, fs, chain, doc, log>>

DecColEnd == \E amount \in Amounts : SpanCalls("dec_col_end", amount, dec_col_end(val.span, amount))

IncColStart ==
    \E amount \in Amounts : SpanCalls("inc_col_start", amount, inc_col_start(val.span, amount))

SetColEndRelativeToStart ==
    \E amount \in Amounts :
        SpanCalls("set_col_end_relative_to_start", amount,
                  set_col_end_relative_to_start(val.span, amount))

ShrinkToEnd == SpanCalls("shrink_to_end", Usize(0), SpanOk(shrink_to_end(val.span)))

ShrinkToStart == SpanCalls("shrink_to_start", Usize(0), SpanOk(shrink_to_start(val.span)))

NextSpan ==
    \/ DecColEnd
    \/ IncColStart
    \/ SetColEndRelativeToStart
    \/ ShrinkToEnd
    \/ ShrinkToStart

SpecSpan == InitSpan /\ [][NextSpan]_vars

\* the amount is one the operation cannot apply within 32 bits
Overflows(op, span, amount) ==
    \/ amount.hi32 > 0
    \/ op = "dec_col_end" /\ Lt32(span.end, amount.lo)
    \/ op \in {"inc_col_start", "set_col_end_relative_to_start"}
           /\ Add32(span.start, amount.lo).overflow

\* C8: applied to a span with start <= end, each of dec_col_end, inc_col_start,
\* set_col_end_relative_to_start, shrink_to_start and shrink_to_end panics or returns a
\* span with start <= end inside the original range; and an amount that underflows or
\* overflows the 32-bit offset is a panic, never a wrapped-around boundary.
C8_SpanArithmeticStaysInRange ==
    (res.op # "" /\ Le32(res.in.span.start, res.in.span.end)) =>
        /\ res.outcome = "ok" => Inside(res.out[1].span, res.in.span)
        /\ Overflows(res.op, res.in.span, res.amount) => res.outcome = "panic"

\* C9: on every span reachable from Span::default, Spanned::dummy and the file reads
\* through the span arithmetic, is_dummy() is true exactly when the span is the sentinel
\* Span::default(), and Display writes the dummy marker exactly when is_dummy() is true.
C9_DummyIsExactlyTheSentinel ==
    /\ is_dummy(val.span) <=> val.span = SpanDefault
    /\ fmt_Display(val.span).kind = "DUMMY_SPAN" <=> is_dummy(val.span)


-----------------------------------------------------------------------------
(* Errors: a leaf, wrapped some times, formatted with {:?} *)

\* the text of the second file
OtherText == EQUALS \o DIGIT

Messages == {"kaboom", "kawoosh"}

\* the spans of the contexts: two in one file, one in another, and the sentinel,
\* whose file cannot be read
ContextSpans ==
    {MkSpan(TextPath, U32(0), U32(1)), MkSpan(TextPath, U32(2), U32(3)),
     MkSpan(OtherPath, U32(0), U32(1)), SpanDefault}

Contexts == {Spanned(m, span, "String") : m \in Messages, span \in ContextSpans}

\* the positions Location::caller() reports to Error::str
Callers ==
    {[file |-> TextPath, line |-> 2, column |-> 1],
     [file |-> MissingPath, line |-> 1, column |-> 1]}

InitErr ==
    /\ overflow_checks \in BOOLEAN
    /\ fs = [p \in Paths |->
                IF p = TextPath THEN Readable(SpanText)
                ELSE IF p = OtherPath THEN Readable(OtherText)
                ELSE Unreadable]
    /\ val = dummy(<<>>, "unit")
    /\ res = NoCall(val)
    /\ chain = <<>>
    /\ doc = NoDoc
    /\ log = <<>>

\* a call that makes or consumes the Error: what was formatted of the old one is gone
Builds(error, context) ==
    /\ chain' = error
    /\ log' = Append(log, context)
    /\ doc' = NoDoc
    /\ UNCHANGED <<overflow_checks, fs, val, res>>

\* Error::new(context) and Error::from(context)
New ==
    /\ chain = <<>>
    /\ \E context \in Contexts : Builds(Error_new(context), context)

\* Error::new_str(context)
NewStr ==
    /\ chain = <<>>
    /\ \E context \in Contexts : Builds(Error_new_str(context), context)

\* Error::str(data) and Error::here(data), called at info
Str ==
    /\ chain = <<>>
    /\ \E data \in Messages, info \in Callers :
           LET made == Error_str(data, info)
           IN  /\ ~made.panic
               /\ Builds(made.v, Spanned(data, made.v[1].span, "String"))

Wrap ==
    /\ chain # <<>>
    /\ Len(log) <= MaxWraps
    /\ \E context \in Contexts : Builds(Error_wrap(chain, context), context)

WrapStr ==
    /\ chain # <<>>
    /\ Len(log) <= MaxWraps
    /\ \E context \in Contexts : Builds(Error_wrap_str(chain, context), context)

\* format!("{:?}", error)
Fmt ==
    /\ chain # <<>>
    /\ doc' = fmt_Debug(chain)
    /\ UNCHANGED <<overflow_checks, fs, val, res, chain, log>>

NextErr ==
    \/ New
    \/ NewStr
    \/ Str
    \/ Wrap
    \/ WrapStr
    \/ Fmt

SpecErr == InitErr /\ [][NextErr]_vars

\* the last formatting built a document
Rendered == doc.snippets # <<>>

RECURSIVE AnnotationCount(_)
AnnotationCount(snippets) ==
    IF snippets = <<>> THEN 0
    ELSE Len(Head(snippets).annotations) + AnnotationCount(Tail(snippets))

FramesIn(file) == {k \in 1..Len(chain) : chain[k].span.file = file}

\* C5: a leaf wrapped N times is a chain of N + 1 frames, and the document built from it
\* holds N + 1 annotations over all its snippets, whatever files the frames are in.
C5_OneAnnotationPerFrame ==
    /\ chain # <<>> => Len(chain) = Len(log)
    /\ Rendered => AnnotationCount(doc.snippets) = Len(log)

\* C6: the document holds one snippet per file of the chain: the first for the
\* outermost frame's file with every frame of that file, and for every other file one
\* snippet with all of that file's frames; no two snippets have the same file.
C6_OneSnippetPerFile ==
    Rendered =>
        /\ doc.snippets[1].origin = chain[1].span.file
        /\ {doc.snippets[k].origin : k \in 1..Len(doc.snippets)}
               = {chain[k].span.file : k \in 1..Len(chain)}
        /\ \A j, k \in 1..Len(doc.snippets) :
               doc.snippets[j].origin = doc.snippets[k].origin => j = k
        /\ \A k \in 1..Len(doc.snippets) :
               Len(doc.snippets[k].annotations)
                   = Cardinality(FramesIn(doc.snippets[k].origin))

\* the annotation a source frame is given
NoteOf(frame) == Annotation(<<frame.span.start, frame.span.end>>, TRUE, frame.data)

LastOf(seq) == seq[Len(seq)]

\* the title is the last context's text and the innermost frame is the leaf
TitleAndLeaf ==
    /\ doc.title = LastOf(log).content
    /\ LastOf(chain) = Frame(log[1].span, log[1].content)
    /\ chain[1] = Frame(LastOf(log).span, LastOf(log).content)

\* C7 as stated: for a leaf wrapped with c1, ..., cN (N >= 1), the document's title is
\* cN's text, the innermost frame is the leaf, and the leaf's text is the last note of
\* the document, whatever files the frames are in.
C7_LeafIsTheLastNote ==
    (Rendered /\ Len(log) >= 2) =>
        /\ TitleAndLeaf
        /\ LastOf(LastOf(doc.snippets).annotations) = NoteOf(LastOf(chain))

\* C7 amended: the title is cN's text, the innermost frame is the leaf, and the leaf's
\* text is the last note of every snippet of the leaf's file; it is the last note of the
\* document when the leaf is in another file than the outermost frame, or when no frame
\* is in another file than the outermost.
C7_LeafIsTheLastNoteOfItsFile ==
    (Rendered /\ Len(log) >= 2) =>
        LET leaf == LastOf(chain)
            main_path == chain[1].span.file
        IN  /\ TitleAndLeaf
            /\ \E k \in 1..Len(doc.snippets) : doc.snippets[k].origin = leaf.span.file
            /\ \A k \in 1..Len(doc.snippets) :
                   doc.snippets[k].origin = leaf.span.file =>
                       LastOf(doc.snippets[k].annotations) = NoteOf(leaf)
            /\ (leaf.span.file # main_path \/ FramesIn(main_path) = 1..Len(chain)) =>
                   LastOf(LastOf(doc.snippets).annotations) = NoteOf(leaf)

\* "kaboom" wrapped with "kawoosh" and once more, over two files, formatted
C7_Witness ==
    /\ Rendered
    /\ Len(chain) = 3
    /\ LastOf(log).content = "kawoosh"
    /\ log[1].content = "kaboom"
    /\ doc.title = "kawoosh"
    /\ LastOf(chain).span.file # chain[1].span.file
    /\ LastOf(LastOf(doc.snippets).annotations).label = "kaboom"

-----------------------------------------------------------------------------
(* Context: a Result given a context, and the Error formatted *)

\* the texts of the failure values e
Failures == {"not found", "denied"}

\* the results the methods are called on
Results ==
    {[ok |-> TRUE, v |-> "unit", e |-> ""]} \cup {[ok |-> FALSE, v |-> "", e |-> e] : e \in Failures}

\* a call on a Result: the method, the context's text, span and reported position, the
\* position reported for e, the Result it was called on, what it returned
Adapts(op, msg, span, info_msg, info, self, ret) ==
    /\ res.op = ""
    /\ res' = [op |-> op, msg |-> msg, span |-> span, info_msg |-> info_msg, info |-> info,
               in |-> self, outcome |-> ret.outcome, out |-> ret.out, err |-> ret.err]
    /\ chain' = ret.err
    /\ UNCHANGED <<overflow_checks, fs, val, doc, log>>

WithContext ==
    \E self \in Results, f \in Contexts, info \in Callers :
        Adapts("with_context", f.content, f.span, info, info, self, with_context(self, f, info))

WithPathContext ==
    \E self \in Results, path \in Paths, msg \in Messages, info \in Callers :
        Adapts("with_path_context", msg, MkSpan(path, U32(0), U32(0)), info, info, self,
               with_path_context(self, path, msg, info))

WithStrContext ==
    \E self \in Results, msg \in Messages, info_msg \in Callers, info \in Callers :
        Adapts("with_str_context", msg, here(info_msg).span, info_msg, info, self,
               with_str_context(self, msg, info_msg, info))

NextCtx ==
    \/ WithContext
    \/ WithPathContext
    \/ WithStrContext
    \/ Fmt

SpecCtx == InitErr /\ [][NextCtx]_vars

Adapted == res.op \in {"with_context", "with_path_context", "with_str_context"}

\* C11: on Err(e) each of with_context, with_path_context and with_str_context returns a
\* chain of two frames, the outer one (the title when formatted) with the context's text
\* at the context's span (the one given, [0,0) of the path, or the call site), the inner
\* one a leaf with e; Ok(v) comes back as it is and no chain is made.
C11_ContextIsTheOuterFrame ==
    Adapted =>
        /\ res.in.ok => (res.outcome = "ok" /\ res.out = <<res.in.v>> /\ chain = <<>>)
        /\ ~res.in.ok =>
               /\ res.outcome = "err"
               /\ Len(chain) = 2
               /\ chain[1] = Frame(res.span, res.msg)
               /\ chain[2].data = res.in.e
               /\ Rendered => doc.title = res.msg

-----------------------------------------------------------------------------
(* Display: a span moved over its file and written with {} *)

\* a file std::fs::read returns and std::fs::read_to_string refuses: its second line
\* ends inside a character
InvalidText == DIGIT \o NEWLINE \o <<194>>

InitFmt ==
    /\ overflow_checks \in BOOLEAN
    /\ \E text \in {t \in Texts(MaxChars) : Len(t) <= SpanWindow} :
           fs = [p \in Paths |->
                    IF p = TextPath THEN Readable(text)
                    ELSE IF p = OtherPath THEN Readable(InvalidText)
                    ELSE Unreadable]
    /\ val \in {read_from_file(p) : p \in Paths \ {EmptyPath}}
    /\ res = NoCall(val)
    /\ chain = <<>>
    /\ doc = NoDoc
    /\ log = <<>>

\* format!("{}", val.span)
Display ==
    LET written == fmt_Display(val.span)
    IN  /\ res' = Call("fmt", <<>>, 0, "", val,
                       IF written.kind = "panic" THEN Panicked
                       ELSE Returned("ok", <<written>>))
        /\ UNCHANGED <<overflow_checks, fs, val, chain, doc, log>>

\* the start is moved over the file, the span made zero-width, and the span written
NextFmt ==
    \/ IncColStart
    \/ ShrinkToStart
    \/ Display

SpecFmt == InitFmt /\ [][NextFmt]_vars

\* the 1-based line of offset at: the line terminators before it, plus one
LineOf(bytes, at) == Cardinality({i \in 1..at : bytes[i] = NEWLINE[1]}) + 1

\* the offset at which the line of offset at starts
LineStartOf(bytes, at) ==
    LET ends == {i \in 1..at : bytes[i] = NEWLINE[1]}
    IN  IF ends = {} THEN 0 ELSE CHOOSE i \in ends : \A j \in ends : j <= i

\* the 1-based column of offset at: the characters of its line before it, plus one
ColumnOf(bytes, at) ==
    Cardinality({i \in LineStartOf(bytes, at)..(at - 1) : is_char_boundary(bytes, i)}) + 1

\* C13: a span that is not the dummy, in a file that can be read, starting at any offset
\* from 0 to the file's length (a line terminator, an empty line, the end of a line and
\* the end of the file included) is written as file:line:col, with the 1-based line
\* holding the offset and the 1-based character column of the offset in it; file:line
\* is written only when the text is not valid UTF-8, and the bare path never.
C13_DisplayLocatesEveryOffset ==
    LET span == res.in.span
        bytes == fs[span.file].bytes
        at == ToNat(span.start)
    IN  (/\ res.op = "fmt"
         /\ ~is_dummy(span)
         /\ span.file # EmptyPath
         /\ fs[span.file].ok
         /\ Le32(span.start, U32(Len(bytes)))) =>
            /\ res.outcome = "ok"
            /\ res.out[1].file = span.file
            /\ res.out[1].kind \in {"file:line:col", "file:line"}
            /\ res.out[1].kind = "file:line" => ~Utf8Valid(bytes)
            /\ res.out[1].line = LineOf(bytes, at)
            /\ (res.out[1].kind = "file:line:col" /\ is_char_boundary(bytes, at)) =>
                   res.out[1].col = ColumnOf(bytes, at)


====
